---- MODULE Spec2Model ----
(***************************************************************************)
(* XCLIPLitModule (com_kitchens/models/xclip_module.py): the distributed   *)
(* evaluation protocol of the video-text retrieval module.  One process    *)
(* per rank runs its own module instance; the trainer drives every rank    *)
(* through the same sequence of validation and test runs.                  *)
(***************************************************************************)
EXTENDS Naturals, Sequences, FiniteSets, TLC

\* ---------------------------------------------------------------- bounds
\* trainer.world_size: number of cooperating processes
WorldSize == 2
\* items of the largest dataset an evaluation run iterates over
MaxItems == 4
\* evaluation runs (validation or test) the trainer starts
MaxRuns == 2

\* named parameters of the largest model handed to configure_optimizers
MaxParams == 4
\* largest task_config.train_data_size, gradient_accumulation_steps, epochs
MaxTrainSize == 3
MaxAccum == 2
MaxEpochs == 2
\* records of the longest list handed to _compute_v2t_metrics on its own
MaxOutputs == 3

Ranks == 0 .. (WorldSize - 1)

\* The items of a dataset are numbered from 1; the number stands for the
\* item's identity key (recipe_id, kitchen_id, ap_id).  Some items are
\* queries, some are pool entries, some both.
IsQueryItem(k) == k % 2 = 1
IsPoolItem(k) == k % 3 # 0

\* The data loader shards the dataset over the ranks: the i-th batch of rank
\* r holds the item at position (i - 1) * WorldSize + r.  One batch holds one
\* item: its key and its is_query / is_pool flags.
Batch(r, i) ==
    LET k == (i - 1) * WorldSize + r + 1
    IN  [ key |-> k, is_query |-> IsQueryItem(k), is_pool |-> IsPoolItem(k) ]

\* number of batches in rank r's shard of a dataset of n items
ShardLen(r, n) == IF n > r THEN ((n - r - 1) \div WorldSize) + 1 ELSE 0

\* the batch the trainer hands to rank r next, after k steps of a run over
\* a dataset of n items
NextBatches(r, k, n) == IF k < ShardLen(r, n) THEN { Batch(r, k + 1) } ELSE {}

\* Optional values: None is the empty sequence, Some(x) a one-element sequence.
None == << >>
Some(x) == << x >>

\* ------------------------------------------------------- metric objects
ValMetricNames ==
    << "val_m1_recall_at_1", "val_m1_recall_at_5", "val_m1_recall_at_10",
       "val_m2_recall_at_1", "val_m2_recall_at_5", "val_m2_recall_at_10" >>

TestMetricNames ==
    << "test_m2_recall_at_1", "test_m2_recall_at_5", "test_m2_recall_at_10",
       "test_m2_median", "test_n_seq", "test_n_vid" >>

FeasibleMetricNames ==
    << "test_feasible_recall_at_1", "test_feasible_recall_at_5",
       "test_feasible_recall_at_10", "test_feasible_median" >>

LossMetricNames == << "train_loss", "val_loss" >>

Range(s) == { s[i] : i \in DOMAIN s }

MetricNames ==
    Range(ValMetricNames) \cup Range(TestMetricNames)
        \cup Range(FeasibleMetricNames) \cup Range(LossMetricNames)

\* keys of the scorer's result read by the validation / test handlers
ValScoreKeys == << "M1-R1", "M1-R5", "M1-R10", "M2-R1", "M2-R5", "M2-R10" >>
TestScoreKeys == << "M2-R1", "M2-R5", "M2-R10", "M2-median" >>

\* names passed to the logging sink by the epoch-end handlers
ValLogNames ==
    << "val/M1-R@1", "val/M1-R@5", "val/M1-R@10",
       "val/M2-R@1", "val/M2-R@5", "val/M2-R@10" >>

TestLogNames ==
    << "test/M2-R@1", "test/M2-R@5", "test/M2-R@10", "test/M2-median",
       "test/n_seq", "test/n_vid" >>

VARIABLES
    phase,               \* the loop the trainer is running: "none", "validate", "test"
    runs,                \* evaluation runs started so far
    data_size,           \* items of the dataset the current run iterates over
    pc,                  \* per rank: "idle", "start", "steps", "gather", "crashed"
    fed,                 \* per rank: batches delivered to the step hook in this run
    valid_step_outputs,  \* per rank: self.valid_step_outputs
    test_step_outputs,   \* per rank: self.test_step_outputs
    list_gather_obj,     \* per rank: the object contributed to the pending gather
    gather_ret,          \* per rank: what the last _gather_outputs call returned
    gather_calls,        \* per rank: gather invocations in the current epoch-end event
    metrics,             \* per rank: metric object name -> values it was updated with
    log_calls,           \* per rank: names logged by the current epoch-end handler
    model,               \* self.model: the network, possibly inside a replication wrapper
    hparams,             \* self.hparams.task_config
    model_before,        \* self.model as it was when configure_optimizers was entered
    param_optimizer,     \* configure_optimizers' list of (name, parameter) pairs
    optimizer,           \* the optimizer configure_optimizers built, None before
    v2t_outputs,         \* the list handed to a direct call of _compute_v2t_metrics
    v2t_pc,              \* that call: "call" before it runs, "returned" after
    scorer_call,         \* the arguments that call passed to compute_scores
    v2t_ret              \* what that call returned

eval_vars ==
    << phase, runs, data_size, pc, fed, valid_step_outputs, test_step_outputs,
       list_gather_obj, gather_ret, gather_calls, metrics, log_calls >>

opt_vars == << model, hparams, model_before, param_optimizer, optimizer >>

v2t_vars == << v2t_outputs, v2t_pc, scorer_call, v2t_ret >>

vars == << eval_vars, opt_vars, v2t_vars >>

\* ------------------------------------------------------ pure functions
\* variant: every rank takes itself for the coordinator
is_global_zero_any(r) == TRUE

\* trainer.is_global_zero
is_global_zero(r) == r = 0

\* MeanMetric.update: the object accumulates the value
MeanMetric_update(m, v) == Append(m, v)

\* the record a validation / test step keeps of its batch
StepOutput(batch) ==
    [ key |-> batch.key, is_query |-> batch.is_query, is_pool |-> batch.is_pool ]

\* model.forward(**batch): the loss of a batch
model_step(batch) == << "loss", batch.key >>

RECURSIVE SelectKeys(_, _)
\* recipe_kitchen_ap_ids[mask]: keys of the flagged items, in order
SelectKeys(outputs, flag) ==
    IF outputs = << >> THEN << >>
    ELSE LET o == Head(outputs)
             rest == SelectKeys(Tail(outputs), flag)
         IN  IF o[flag] THEN << o.key >> \o rest ELSE rest

\* compute_scores(retrieve_logits.T, pool keys, query keys, stage): the
\* scorer's result for a score key, as a term over the scorer's arguments
compute_scores(pool_keys, query_keys) ==
    [ k \in Range(ValScoreKeys) \cup Range(TestScoreKeys)
        |-> << k, pool_keys, query_keys >> ]

\* _compute_v2t_metrics: None for an empty list, else (scores, n_seq, n_vid)
compute_v2t_metrics(outputs) ==
    IF Len(outputs) = 0 THEN None
    ELSE LET pool_keys == SelectKeys(outputs, "is_pool")
             query_keys == SelectKeys(outputs, "is_query")
         IN  Some([ scores |-> compute_scores(pool_keys, query_keys),
                    n_seq |-> Len(pool_keys),
                    n_vid |-> Len(query_keys) ])

RECURSIVE FlattenFrom(_, _)
\* [output for outputs in list_gather_obj for output in outputs], from rank r on
FlattenFrom(objs, r) ==
    IF r > WorldSize - 1 THEN << >>
    ELSE objs[r][1] \o FlattenFrom(objs, r + 1)

RECURSIVE FlattenDown(_, _)
FlattenDown(objs, r) ==
    IF r = 0 THEN objs[0][1] ELSE objs[r][1] \o FlattenDown(objs, r - 1)

\* variant: the per-rank lists are concatenated from the last rank down
Flatten_reversed(objs) == FlattenDown(objs, WorldSize - 1)

\* the flattened list the coordinator's _gather_outputs returns
Flatten(objs) == FlattenFrom(objs, 0)


\* ------------------------------------------------ rational arithmetic
\* A Python float that the program computes from integers and decimal
\* literals is kept as an exact fraction << numerator, denominator >>.
Rat(n, d) == << n, d >>
RatMul(a, b) == << a[1] * b[1], a[2] * b[2] >>
RatEq(a, b) == a[1] * b[2] = b[1] * a[2]
RatIsInteger(a) == a[1] % a[2] = 0

\* ------------------------------------------------- parameter grouping
\* A parameter name is a sequence of tokens ("clip", ".", "layer", ...);
\* a marker is one too, and `marker in name` holds when the marker's tokens
\* occur in the name one after the other.
In(marker, n) ==
    \E i \in 1 .. (Len(n) - Len(marker) + 1) :
        SubSeq(n, i, i + Len(marker) - 1) = marker

\* no_decay = ["bias", "LayerNorm.bias", "LayerNorm.weight"]
no_decay ==
    << << "bias" >>,
       << "LayerNorm", ".", "bias" >>,
       << "LayerNorm", ".", "weight" >> >>

\* the marker "clip." of the backbone's parameters
clip_marker == << "clip", "." >>

\* variant: only the first marker is looked for
any_in_first_only(markers, n) == In(markers[1], n)

\* any(nd in n for nd in markers)
any_in(markers, n) == \E i \in DOMAIN markers : In(markers[i], n)

\* weight_decay = 0.2, and the 0.0 of the no-decay groups
weight_decay == Rat(2, 10)
no_weight_decay == Rat(0, 10)

\* variant: the backbone groups get the base learning rate
backbone_lr_unscaled(lr, coef_lr) == lr

\* the "lr" entry of the backbone groups: lr * coef_lr
backbone_lr(lr, coef_lr) == RatMul(lr, coef_lr)

\* [p for n, p in pairs]
ParamsOf(pairs) == [i \in DOMAIN pairs |-> pairs[i].p]

\* optimizer_grouped_parameters: the four groups, in the order of the list
\* literal; a group without an "lr" entry has lr = None
optimizer_grouped_parameters(pairs, lr, coef_lr) ==
    LET decay_param_tp == SelectSeq(pairs, LAMBDA np : ~ any_in(no_decay, np.n))
        no_decay_param_tp == SelectSeq(pairs, LAMBDA np : any_in(no_decay, np.n))
        decay_clip_param_tp ==
            SelectSeq(decay_param_tp, LAMBDA np : In(clip_marker, np.n))
        decay_noclip_param_tp ==
            SelectSeq(decay_param_tp, LAMBDA np : ~ In(clip_marker, np.n))
        no_decay_clip_param_tp ==
            SelectSeq(no_decay_param_tp, LAMBDA np : In(clip_marker, np.n))
        no_decay_noclip_param_tp ==
            SelectSeq(no_decay_param_tp, LAMBDA np : ~ In(clip_marker, np.n))
    IN  << [ params |-> ParamsOf(decay_clip_param_tp),
             weight_decay |-> weight_decay,
             lr |-> Some(backbone_lr(lr, coef_lr)) ],
           [ params |-> ParamsOf(decay_noclip_param_tp),
             weight_decay |-> weight_decay,
             lr |-> None ],
           [ params |-> ParamsOf(no_decay_clip_param_tp),
             weight_decay |-> no_weight_decay,
             lr |-> Some(backbone_lr(lr, coef_lr)) ],
           [ params |-> ParamsOf(no_decay_noclip_param_tp),
             weight_decay |-> no_weight_decay,
             lr |-> None ] >>

\* num_train_optimization_steps: true division, then the product
num_train_optimization_steps(train_data_size, gradient_accumulation_steps, epochs) ==
    RatMul(Rat(train_data_size + gradient_accumulation_steps - 1,
               gradient_accumulation_steps),
           Rat(epochs, 1))

\* A model is its ordered parameter list, possibly inside a replication
\* wrapper; a parameter object is identified by its name in the bare model.
\* hasattr(m, "module")
has_module(m) == m.wrapped

\* variant: the wrapper is kept
module_of_kept(m) == m

\* m.module: the model inside the wrapper
module_of(m) == [ wrapped |-> FALSE, names |-> m.names ]

\* list(m.named_parameters()): the wrapper prefixes every name with "module."
named_parameters(m) ==
    [ i \in DOMAIN m.names |->
        [ n |-> IF m.wrapped THEN << "module", "." >> \o m.names[i]
                ELSE m.names[i],
          p |-> m.names[i] ] ]

\* ------------------------------------------------ similarity matrix
\* A matrix is its row count, its column count and its entries.
\* model.get_similarity_logits(sequence_output, ..., visual_output, ...):
\* one row per sequence item, one column per visual item (n_seq, n_vis)
get_similarity_logits(sequence_output, visual_output) ==
    [ rows |-> Len(sequence_output),
      cols |-> Len(visual_output),
      at |-> [ ij \in (1 .. Len(sequence_output)) \X (1 .. Len(visual_output)) |->
                 << "sim", sequence_output[ij[1]], visual_output[ij[2]] >> ] ]

\* variant: the matrix is passed on as it is
Transpose_skipped(m) == m

\* retrieve_logits.T
Transpose(m) ==
    [ rows |-> m.cols,
      cols |-> m.rows,
      at |-> [ ij \in (1 .. m.cols) \X (1 .. m.rows) |-> m.at[<< ij[2], ij[1] >>] ] ]

\* the arguments _compute_v2t_metrics passes to compute_scores: the
\* embedding of an item stands for the item, so the rows of
\* sequence_output[is_pool] and visual_output[is_query] are the items' keys
scorer_args(outputs) ==
    LET sequence_output == SelectKeys(outputs, "is_pool")
        visual_output == SelectKeys(outputs, "is_query")
        retrieve_logits == get_similarity_logits(sequence_output, visual_output)
    IN  [ logits |-> Transpose(retrieve_logits),
          first_keys |-> SelectKeys(outputs, "is_pool"),
          second_keys |-> SelectKeys(outputs, "is_query") ]

\* ---------------------------------------------------------------- Init
InitEval ==
    /\ phase = "none"
    /\ runs = 0
    /\ data_size = 0
    /\ pc = [r \in Ranks |-> "idle"]
    /\ fed = [r \in Ranks |-> << >>]
    /\ valid_step_outputs = [r \in Ranks |-> << >>]
    /\ test_step_outputs = [r \in Ranks |-> << >>]
    /\ list_gather_obj = [r \in Ranks |-> None]
    /\ gather_ret = [r \in Ranks |-> None]
    /\ gather_calls = [r \in Ranks |-> 0]
    /\ metrics = [r \in Ranks |-> [n \in MetricNames |-> << >>]]
    /\ log_calls = [r \in Ranks |-> << >>]

\* the four-parameter model: a backbone weight and bias, a fusion weight and bias
ExampleNames ==
    << << "clip", ".", "layer", ".", "weight" >>,
       << "clip", ".", "layer", ".", "bias" >>,
       << "fusion", ".", "weight" >>,
       << "fusion", ".", "bias" >> >>

\* no optimizer has been configured yet
InitOptimizer ==
    /\ model = [ wrapped |-> FALSE, names |-> ExampleNames ]
    /\ hparams = [ train_data_size |-> 1, gradient_accumulation_steps |-> 1,
                   epochs |-> 1, lr |-> Rat(1, 10000), coef_lr |-> Rat(1, 1000) ]
    /\ model_before = None
    /\ param_optimizer = << >>
    /\ optimizer = None

\* no direct call of _compute_v2t_metrics is under way
InitV2T ==
    /\ v2t_outputs = << >>
    /\ v2t_pc = "returned"
    /\ scorer_call = None
    /\ v2t_ret = None

Init == InitEval /\ InitOptimizer /\ InitV2T

\* ------------------------------------------------------------- trainer
\* The trainer starts the next evaluation run, over a dataset of n items, on
\* every rank once every rank has returned from the previous one.  Each rank
\* then runs the start hook, one step per batch of its shard, and the
\* epoch-end hook.
StartRun(p, n) ==
    /\ runs < MaxRuns
    /\ \A r \in Ranks : pc[r] = "idle"
    /\ phase' = p
    /\ runs' = runs + 1
    /\ data_size' = n
    /\ pc' = [r \in Ranks |-> "start"]
    /\ fed' = [r \in Ranks |-> << >>]
    /\ list_gather_obj' = [r \in Ranks |-> None]
    /\ gather_calls' = [r \in Ranks |-> 0]
    /\ log_calls' = [r \in Ranks |-> << >>]
    /\ UNCHANGED << opt_vars, v2t_vars, valid_step_outputs, test_step_outputs,
                    gather_ret, metrics >>

\* ------------------------------------------------------ the collective
\* variant: only the coordinator's contribution reaches the collective
gather_object_rank0_only(objs, r, obj) ==
    IF r = 0 THEN [objs EXCEPT ![r] = Some(obj)] ELSE objs

\* dist.gather_object(obj, ..., dst=0) as called by rank r: its contribution
gather_object(objs, r, obj) == [objs EXCEPT ![r] = Some(obj)]

\* the blocking collective completes once every rank has contributed
gather_complete(objs) == \A q \in Ranks : objs[q] # None

\* variant: every rank gets the flattened list back
gather_outputs_all(r, objs) == Some(Flatten(objs))

\* _gather_outputs' return value on rank r once the collective has completed
gather_outputs(r, objs) ==
    IF ~ is_global_zero(r) THEN None ELSE Some(Flatten(objs))

\* self.log / self.log_on_epoch called with each name in turn
log_all(calls, names) == calls \o names

\* update the named metric objects with the given values, in order
update_all(ms, names, values) ==
    [ n \in MetricNames |->
        IF \E i \in DOMAIN names : names[i] = n
        THEN MeanMetric_update(ms[n],
                 values[CHOOSE i \in DOMAIN names : names[i] = n])
        ELSE ms[n] ]

\* ---------------------------------------------------------- validation
\* variant: the list of the previous validation run is kept
on_validation_start_keep(r) ==
    /\ phase = "validate"
    /\ pc[r] = "start"
    /\ pc' = [pc EXCEPT ![r] = "steps"]
    /\ UNCHANGED << opt_vars, v2t_vars, phase, runs, data_size, fed, valid_step_outputs,
                    test_step_outputs, list_gather_obj, gather_ret,
                    gather_calls, metrics, log_calls >>

on_validation_start(r) ==
    /\ phase = "validate"
    /\ pc[r] = "start"
    /\ valid_step_outputs' = [valid_step_outputs EXCEPT ![r] = << >>]
    /\ pc' = [pc EXCEPT ![r] = "steps"]
    /\ UNCHANGED << opt_vars, v2t_vars, phase, runs, data_size, fed, test_step_outputs, list_gather_obj,
                    gather_ret, gather_calls, metrics, log_calls >>

validation_step(r, batch) ==
    /\ phase = "validate"
    /\ pc[r] = "steps"
    /\ fed' = [fed EXCEPT ![r] = Append(@, batch)]
    /\ metrics' = [metrics EXCEPT
                     ![r]["val_loss"] = MeanMetric_update(@, model_step(batch))]
    /\ valid_step_outputs' =
           [valid_step_outputs EXCEPT ![r] = Append(@, StepOutput(batch))]
    /\ UNCHANGED << opt_vars, v2t_vars, phase, runs, data_size, pc, test_step_outputs, list_gather_obj,
                    gather_ret, gather_calls, log_calls >>

\* variant: the gathered result is used
validation_outputs_gathered(r, gathered) == gathered[1]

\* the list on_validation_epoch_end hands to _compute_v2t_metrics: the
\* gathered result is overwritten by the process-local list
validation_outputs(r, gathered) == valid_step_outputs[r]

\* variant: only the coordinator enters the collective
on_validation_epoch_end_gather_rank0(r) ==
    /\ phase = "validate"
    /\ pc[r] = "steps"
    /\ NextBatches(r, Len(fed[r]), data_size) = {}
    /\ list_gather_obj' = [list_gather_obj EXCEPT ![r] = Some(valid_step_outputs[r])]
    /\ gather_calls' = [gather_calls EXCEPT ![r] = IF r = 0 THEN @ + 1 ELSE @]
    /\ pc' = [pc EXCEPT ![r] = "gather"]
    /\ UNCHANGED << opt_vars, v2t_vars, phase, runs, data_size, fed, valid_step_outputs,
                    test_step_outputs, gather_ret, metrics, log_calls >>

\* on_validation_epoch_end up to the blocking point: _gather_outputs is
\* entered and the rank's list is handed to the collective
on_validation_epoch_end_gather(r) ==
    /\ phase = "validate"
    /\ pc[r] = "steps"
    /\ NextBatches(r, Len(fed[r]), data_size) = {}
    /\ list_gather_obj' = gather_object(list_gather_obj, r, valid_step_outputs[r])
    /\ gather_calls' = [gather_calls EXCEPT ![r] = @ + 1]
    /\ pc' = [pc EXCEPT ![r] = "gather"]
    /\ UNCHANGED << opt_vars, v2t_vars, phase, runs, data_size, fed, valid_step_outputs, test_step_outputs,
                    gather_ret, metrics, log_calls >>

\* on_validation_epoch_end from the return of the collective to its end
on_validation_epoch_end(r) ==
    /\ phase = "validate"
    /\ pc[r] = "gather"
    /\ gather_complete(list_gather_obj)
    /\ LET ret == gather_outputs(r, list_gather_obj)
           m == IF is_global_zero(r)
                THEN compute_v2t_metrics(validation_outputs(r, ret))
                ELSE None
       IN  /\ gather_ret' = [gather_ret EXCEPT ![r] = ret]
           /\ IF is_global_zero(r) /\ m = None
              THEN \* unpacking None raises: the handler is left by the exception
                   /\ pc' = [pc EXCEPT ![r] = "crashed"]
                   /\ UNCHANGED << metrics, log_calls >>
              ELSE /\ metrics' =
                        IF is_global_zero(r)
                        THEN [metrics EXCEPT ![r] =
                                 update_all(@, ValMetricNames,
                                     [i \in DOMAIN ValScoreKeys |->
                                         m[1].scores[ValScoreKeys[i]]])]
                        ELSE metrics
                   /\ log_calls' = [log_calls EXCEPT ![r] = log_all(@, ValLogNames)]
                   /\ pc' = [pc EXCEPT ![r] = "idle"]
    /\ UNCHANGED << opt_vars, v2t_vars, phase, runs, data_size, fed, valid_step_outputs, test_step_outputs,
                    list_gather_obj, gather_calls >>

\* ---------------------------------------------------------------- test
\* variant: the list of the previous test run is kept
on_test_start_keep(r) ==
    /\ phase = "test"
    /\ pc[r] = "start"
    /\ pc' = [pc EXCEPT ![r] = "steps"]
    /\ UNCHANGED << opt_vars, v2t_vars, phase, runs, data_size, fed, valid_step_outputs,
                    test_step_outputs, list_gather_obj, gather_ret,
                    gather_calls, metrics, log_calls >>

on_test_start(r) ==
    /\ phase = "test"
    /\ pc[r] = "start"
    /\ test_step_outputs' = [test_step_outputs EXCEPT ![r] = << >>]
    /\ pc' = [pc EXCEPT ![r] = "steps"]
    /\ UNCHANGED << opt_vars, v2t_vars, phase, runs, data_size, fed, valid_step_outputs, list_gather_obj,
                    gather_ret, gather_calls, metrics, log_calls >>

\* variant: the test step also computes the loss, as the validation step does
test_step_with_loss(r, batch) ==
    /\ phase = "test"
    /\ pc[r] = "steps"
    /\ fed' = [fed EXCEPT ![r] = Append(@, batch)]
    /\ metrics' = [metrics EXCEPT
                     ![r]["val_loss"] = MeanMetric_update(@, model_step(batch))]
    /\ test_step_outputs' =
           [test_step_outputs EXCEPT ![r] = Append(@, StepOutput(batch))]
    /\ UNCHANGED << opt_vars, v2t_vars, phase, runs, data_size, pc, valid_step_outputs, list_gather_obj,
                    gather_ret, gather_calls, log_calls >>

test_step(r, batch) ==
    /\ phase = "test"
    /\ pc[r] = "steps"
    /\ fed' = [fed EXCEPT ![r] = Append(@, batch)]
    /\ test_step_outputs' =
           [test_step_outputs EXCEPT ![r] = Append(@, StepOutput(batch))]
    /\ UNCHANGED << opt_vars, v2t_vars, phase, runs, data_size, pc, valid_step_outputs, list_gather_obj,
                    gather_ret, gather_calls, metrics, log_calls >>

\* variant: the process-local list is used, as in validation
test_outputs_local(r, gathered) == test_step_outputs[r]

\* the list on_test_epoch_end hands to _compute_v2t_metrics on the
\* coordinator: the gathered result itself
test_outputs(r, gathered) == gathered[1]

on_test_epoch_end_gather(r) ==
    /\ phase = "test"
    /\ pc[r] = "steps"
    /\ NextBatches(r, Len(fed[r]), data_size) = {}
    /\ list_gather_obj' = gather_object(list_gather_obj, r, test_step_outputs[r])
    /\ gather_calls' = [gather_calls EXCEPT ![r] = @ + 1]
    /\ pc' = [pc EXCEPT ![r] = "gather"]
    /\ UNCHANGED << opt_vars, v2t_vars, phase, runs, data_size, fed, valid_step_outputs, test_step_outputs,
                    gather_ret, metrics, log_calls >>

on_test_epoch_end(r) ==
    /\ phase = "test"
    /\ pc[r] = "gather"
    /\ gather_complete(list_gather_obj)
    /\ LET ret == gather_outputs(r, list_gather_obj)
           m == IF is_global_zero(r)
                THEN compute_v2t_metrics(test_outputs(r, ret))
                ELSE None
       IN  /\ gather_ret' = [gather_ret EXCEPT ![r] = ret]
           /\ IF is_global_zero(r) /\ m = None
              THEN \* unpacking None raises: the handler is left by the exception
                   /\ pc' = [pc EXCEPT ![r] = "crashed"]
                   /\ UNCHANGED << metrics, log_calls >>
              ELSE /\ metrics' =
                        IF is_global_zero(r)
                        THEN [metrics EXCEPT ![r] =
                                 update_all(@, TestMetricNames,
                                     [i \in DOMAIN TestMetricNames |->
                                         IF i <= Len(TestScoreKeys)
                                         THEN m[1].scores[TestScoreKeys[i]]
                                         ELSE IF i = Len(TestScoreKeys) + 1
                                              THEN m[1].n_seq
                                              ELSE m[1].n_vid])]
                        ELSE metrics
                   /\ log_calls' = [log_calls EXCEPT ![r] = log_all(@, TestLogNames)]
                   /\ pc' = [pc EXCEPT ![r] = "idle"]
    /\ UNCHANGED << opt_vars, v2t_vars, phase, runs, data_size, fed, valid_step_outputs, test_step_outputs,
                    list_gather_obj, gather_calls >>

\* ---------------------------------------------------------------- Next
Next ==
    \/ \E p \in {"validate", "test"} : \E n \in 0 .. MaxItems : StartRun(p, n)
    \/ \E r \in Ranks : on_validation_start(r)
    \/ \E r \in Ranks : \E batch \in NextBatches(r, Len(fed[r]), data_size) : validation_step(r, batch)
    \/ \E r \in Ranks : on_validation_epoch_end_gather(r)
    \/ \E r \in Ranks : on_validation_epoch_end(r)
    \/ \E r \in Ranks : on_test_start(r)
    \/ \E r \in Ranks : \E batch \in NextBatches(r, Len(fed[r]), data_size) : test_step(r, batch)
    \/ \E r \in Ranks : on_test_epoch_end_gather(r)
    \/ \E r \in Ranks : on_test_epoch_end(r)

Spec == Init /\ [][Next]_vars

\* Every rank is a running process: once the collective has completed, the
\* rest of its epoch-end handler runs.
Fairness ==
    \A r \in Ranks :
        /\ WF_vars(on_validation_epoch_end(r))
        /\ WF_vars(on_test_epoch_end(r))

FairSpec == Spec /\ Fairness


\* ------------------------------------------------------------ training
\* MeanMetric.reset: the object forgets the values it was updated with
MeanMetric_reset(m) == << >>

\* variant: only the M1 recalls are reset
on_train_start_m1_only(r) ==
    /\ phase = "train"
    /\ pc[r] = "start"
    /\ metrics' = [metrics EXCEPT ![r] =
                     [n \in MetricNames |->
                        IF n \in {ValMetricNames[1], ValMetricNames[2], ValMetricNames[3]}
                        THEN MeanMetric_reset(@[n]) ELSE @[n]]]
    /\ pc' = [pc EXCEPT ![r] = "steps"]
    /\ UNCHANGED << opt_vars, v2t_vars, phase, runs, data_size, fed, valid_step_outputs,
                    test_step_outputs, list_gather_obj, gather_ret,
                    gather_calls, log_calls >>

on_train_start(r) ==
    /\ phase = "train"
    /\ pc[r] = "start"
    /\ metrics' = [metrics EXCEPT ![r] =
                     [n \in MetricNames |->
                        IF n \in Range(ValMetricNames)
                        THEN MeanMetric_reset(@[n]) ELSE @[n]]]
    /\ pc' = [pc EXCEPT ![r] = "steps"]
    /\ UNCHANGED << opt_vars, v2t_vars, phase, runs, data_size, fed, valid_step_outputs,
                    test_step_outputs, list_gather_obj, gather_ret,
                    gather_calls, log_calls >>

training_step(r, batch) ==
    /\ phase = "train"
    /\ pc[r] = "steps"
    /\ fed' = [fed EXCEPT ![r] = Append(@, batch)]
    /\ metrics' = [metrics EXCEPT
                     ![r]["train_loss"] = MeanMetric_update(@, model_step(batch))]
    /\ UNCHANGED << opt_vars, v2t_vars, phase, runs, data_size, pc, valid_step_outputs,
                    test_step_outputs, list_gather_obj, gather_ret,
                    gather_calls, log_calls >>

\* The module has no hook at the end of a training epoch: after the last
\* batch of the shard the trainer takes the rank back.
EndTrainRun(r) ==
    /\ phase = "train"
    /\ pc[r] = "steps"
    /\ NextBatches(r, Len(fed[r]), data_size) = {}
    /\ pc' = [pc EXCEPT ![r] = "idle"]
    /\ UNCHANGED << opt_vars, v2t_vars, phase, runs, data_size, fed, valid_step_outputs,
                    test_step_outputs, list_gather_obj, gather_ret,
                    gather_calls, metrics, log_calls >>

\* evaluation runs and training runs, in any order
NextFit ==
    \/ Next
    \/ \E n \in 0 .. MaxItems : StartRun("train", n)
    \/ \E r \in Ranks : on_train_start(r)
    \/ \E r \in Ranks : \E batch \in NextBatches(r, Len(fed[r]), data_size) : training_step(r, batch)
    \/ \E r \in Ranks : EndTrainRun(r)

SpecFit == Init /\ [][NextFit]_vars


\* --------------------------------------------------------- optimizer
configure_optimizers ==
    /\ optimizer = None
    /\ LET m == IF has_module(model) THEN module_of(model) ELSE model
           pairs == named_parameters(m)
       IN  /\ model_before' = Some(model)
           /\ model' = m
           /\ param_optimizer' = pairs
           /\ optimizer' =
                Some([ param_groups |->
                           optimizer_grouped_parameters(pairs, hparams.lr, hparams.coef_lr),
                       lr |-> hparams.lr,
                       schedule |-> "warmup_cosine",
                       b1 |-> Rat(9, 10),
                       b2 |-> Rat(98, 100),
                       e |-> Rat(1, 1000000),
                       t_total |->
                           num_train_optimization_steps(
                               hparams.train_data_size,
                               hparams.gradient_accumulation_steps,
                               hparams.epochs),
                       weight_decay |-> weight_decay,
                       max_grad_norm |-> Rat(1, 1) ])
    /\ UNCHANGED << hparams, eval_vars, v2t_vars >>

\* names a model's parameters can have
ParamNames ==
    Range(ExampleNames)
        \cup { << "clip", ".", "LayerNorm", ".", "weight" >>,
               << "fusion", ".", "clip" >> }

\* the models: every list of at most MaxParams parameters with distinct
\* names, bare or inside the replication wrapper
Models ==
    { [ wrapped |-> w, names |-> ns ] :
        w \in BOOLEAN,
        ns \in { q \in UNION { [1 .. k -> ParamNames] : k \in 0 .. MaxParams } :
                   \A i, j \in DOMAIN q : i # j => q[i] # q[j] } }

\* the configurations: positive sizes, a base learning rate and a coefficient
Hparams ==
    [ train_data_size : 1 .. MaxTrainSize,
      gradient_accumulation_steps : 1 .. MaxAccum,
      epochs : 1 .. MaxEpochs,
      lr : { Rat(1, 10000) },
      coef_lr : { Rat(1, 1000), Rat(1, 1) } ]

\* a module constructed for any model and configuration
InitOpt ==
    /\ InitEval
    /\ InitV2T
    /\ model \in Models
    /\ hparams \in Hparams
    /\ model_before = None
    /\ param_optimizer = << >>
    /\ optimizer = None

NextOpt == configure_optimizers

SpecOpt == InitOpt /\ [][NextOpt]_vars

\* ------------------------------------------------- metric computation
\* a direct call of _compute_v2t_metrics: nothing is passed to the scorer
\* for an empty list
call_compute_v2t_metrics ==
    /\ v2t_pc = "call"
    /\ v2t_ret' = compute_v2t_metrics(v2t_outputs)
    /\ scorer_call' =
          IF Len(v2t_outputs) = 0 THEN None ELSE Some(scorer_args(v2t_outputs))
    /\ v2t_pc' = "returned"
    /\ UNCHANGED << v2t_outputs, eval_vars, opt_vars >>

\* the lists of at most MaxOutputs records: the i-th record holds item i,
\* with any is_query / is_pool flags
OutputLists ==
    UNION { [ 1 .. k -> { [ is_query |-> q, is_pool |-> p ] : q, p \in BOOLEAN } ]
              : k \in 0 .. MaxOutputs }

\* the records of a list of flags
WithKeys(flags) ==
    [ i \in DOMAIN flags |->
        [ key |-> i, is_query |-> flags[i].is_query, is_pool |-> flags[i].is_pool ] ]

\* a call of _compute_v2t_metrics with any such list is about to run
InitV2TCall ==
    /\ InitEval
    /\ InitOptimizer
    /\ v2t_outputs \in { WithKeys(f) : f \in OutputLists }
    /\ v2t_pc = "call"
    /\ scorer_call = None
    /\ v2t_ret = None

NextV2T == call_compute_v2t_metrics

SpecV2T == InitV2TCall /\ [][NextV2T]_vars

\* ------------------------------------------------------------ properties
Last(s) == s[Len(s)]

\* rank r has left the epoch-end handler of the current run (by return or
\* by exception)
LeftHandler(r) == phase # "none" /\ pc[r] \in {"idle", "crashed"}

\* the phase list of the current run on rank r
PhaseOutputs(r) ==
    IF phase = "validate" THEN valid_step_outputs[r] ELSE test_step_outputs[r]

\* the records of the steps rank r has run since the start of the run
RecordsOfSteps(r) == [i \in 1 .. Len(fed[r]) |-> StepOutput(fed[r][i])]

RECURSIVE RankConcat(_, _)
\* the lists of ranks r, r + 1, ... one after the other
RankConcat(lists, r) ==
    IF r \notin Ranks THEN << >> ELSE lists[r] \o RankConcat(lists, r + 1)

\* C1: in every validation and test epoch-end event each rank invokes the
\* gather exactly once, whatever its rank and whatever its list holds: no
\* call before the handler is entered, one call from then on, and still one
\* when the handler has been left.
C1_GatherExactlyOnce ==
    \A r \in Ranks :
        /\ pc[r] \in {"start", "steps"} => gather_calls[r] = 0
        /\ pc[r] = "gather" => gather_calls[r] = 1
        /\ LeftHandler(r) => gather_calls[r] = 1

\* a non-coordinator with an empty list has left a validation epoch end and
\* a coordinator with a non-empty list has too, each after one gather call
C1_Witness ==
    /\ phase = "validate"
    /\ \A r \in Ranks : pc[r] = "idle" /\ gather_calls[r] = 1
    /\ valid_step_outputs[0] # << >>
    /\ \E r \in Ranks : r # 0 /\ valid_step_outputs[r] = << >>

\* C2: when every rank contributes a list of the same length L, the sequence
\* returned on the coordinator has length WorldSize * L and its element
\* r * L + i is the i-th record of rank r: each rank's own order is kept and
\* rank r's records come before those of rank r + 1.
C2_GatherRankOrder ==
    (/\ LeftHandler(0)
     /\ \A r \in Ranks : Len(PhaseOutputs(r)) = Len(PhaseOutputs(0)))
    => LET L == Len(PhaseOutputs(0))
           ret == gather_ret[0][1]
       IN  /\ gather_ret[0] # None
           /\ Len(ret) = WorldSize * L
           /\ \A r \in Ranks : \A i \in 1 .. L :
                  ret[r * L + i] = PhaseOutputs(r)[i]

\* every rank contributed two records and the coordinator's gather returned
C2_Witness ==
    /\ phase = "test"
    /\ pc[0] = "idle"
    /\ \A r \in Ranks : Len(test_step_outputs[r]) = 2
    /\ gather_ret[0] # None
    /\ Len(gather_ret[0][1]) = 2 * WorldSize

\* every rank is inside the same epoch-end handler, after at least one step
AllEnteredAfterSteps ==
    /\ phase \in {"validate", "test"}
    /\ \A r \in Ranks : pc[r] = "gather" /\ Len(fed[r]) >= 1

AllReturned == \A r \in Ranks : pc[r] = "idle"

\* C3: once every rank has entered the same epoch-end handler after running
\* at least one step, the collective completes and every rank eventually
\* returns from the handler.
C3_GatherCompletes == AllEnteredAfterSteps ~> AllReturned

\* every rank ran a step, entered the test epoch end and returned from it
C3_Witness ==
    /\ phase = "test"
    /\ \A r \in Ranks :
          pc[r] = "idle" /\ Len(fed[r]) >= 1 /\ log_calls[r] = TestLogNames

\* C4: every rank that leaves a validation epoch end has issued the six
\* val/ logging calls in order, and every rank that leaves a test epoch end
\* the six test/ logging calls in order.
C4_SymmetricLogging ==
    \A r \in Ranks :
        LeftHandler(r) =>
            log_calls[r] = IF phase = "validate" THEN ValLogNames ELSE TestLogNames

\* the list handed to metric computation on the coordinator in this run
MetricInput ==
    IF phase = "validate" THEN valid_step_outputs[0] ELSE gather_ret[0][1]

\* C5: when the list handed to metric computation is empty, the epoch-end
\* handler completes without an exception and the logging calls are issued.
C5_EmptyListIsNoOp ==
    (LeftHandler(0) /\ MetricInput = << >>)
    => /\ pc[0] = "idle"
       /\ log_calls[0] = IF phase = "validate" THEN ValLogNames ELSE TestLogNames

\* keys of the items in rank r's shard of the dataset
ShardKeys(r) == { Batch(r, i).key : i \in 1 .. ShardLen(r, data_size) }

\* C6: after a validation epoch end on the coordinator, each of the six
\* validation recall objects was last updated with the score computed from
\* the coordinator's own validation list: the pool and query keys the score
\* was computed from are keys of the coordinator's shard only.
C6_ValidationUsesLocalList ==
    (phase = "validate" /\ pc[0] = "idle")
    => \A i \in DOMAIN ValMetricNames :
          LET v == Last(metrics[0][ValMetricNames[i]])
          IN  /\ v = compute_v2t_metrics(valid_step_outputs[0])[1]
                        .scores[ValScoreKeys[i]]
              /\ Range(v[2]) \subseteq ShardKeys(0)
              /\ Range(v[3]) \subseteq ShardKeys(0)
              /\ Len(v[2]) = Cardinality({k \in ShardKeys(0) : IsPoolItem(k)})
              /\ Len(v[3]) = Cardinality({k \in ShardKeys(0) : IsQueryItem(k)})

\* the coordinator updated its validation recalls while another rank had
\* contributed records to the gather
C6_Witness ==
    /\ phase = "validate"
    /\ pc[0] = "idle"
    /\ \E r \in Ranks : r # 0 /\ valid_step_outputs[r] # << >>
    /\ metrics[0]["val_m2_recall_at_10"] # << >>

\* C7 as stated: after a test epoch end on the coordinator, the test
\* objects were last updated with values computed from the coordinator's own
\* test list only.
C7_TestUsesLocalList ==
    (phase = "test" /\ pc[0] = "idle")
    => LET m == compute_v2t_metrics(test_step_outputs[0])[1]
       IN  /\ Last(metrics[0]["test_n_seq"]) = m.n_seq
           /\ Last(metrics[0]["test_n_vid"]) = m.n_vid
           /\ \A i \in DOMAIN TestScoreKeys :
                  Last(metrics[0][TestMetricNames[i]]) = m.scores[TestScoreKeys[i]]

\* C7 amended: after a test epoch end on the coordinator, the test objects
\* were last updated with values computed from the lists of all ranks,
\* concatenated in rank order: n_seq and n_vid count the pool items and the
\* query items of the whole dataset, not of the coordinator's shard.
C7_TestUsesGatheredList ==
    (phase = "test" /\ pc[0] = "idle")
    => LET m == compute_v2t_metrics(RankConcat(test_step_outputs, 0))[1]
       IN  /\ Last(metrics[0]["test_n_seq"]) = m.n_seq
           /\ Last(metrics[0]["test_n_seq"]) =
                  Cardinality({k \in 1 .. data_size : IsPoolItem(k)})
           /\ Last(metrics[0]["test_n_vid"]) = m.n_vid
           /\ Last(metrics[0]["test_n_vid"]) =
                  Cardinality({k \in 1 .. data_size : IsQueryItem(k)})
           /\ \A i \in DOMAIN TestScoreKeys :
                  Last(metrics[0][TestMetricNames[i]]) = m.scores[TestScoreKeys[i]]

\* the coordinator updated test_n_seq with a count that exceeds the number
\* of records in its own list
C7_Witness ==
    /\ phase = "test"
    /\ pc[0] = "idle"
    /\ metrics[0]["test_n_seq"] # << >>
    /\ Last(metrics[0]["test_n_seq"]) > Len(test_step_outputs[0])

EpochMetricNames == Range(ValMetricNames) \cup Range(TestMetricNames)

\* C8: on every non-coordinator rank, the part of an epoch-end handler that
\* follows the gather leaves the validation recall objects and the test
\* recall / median / count objects as they were.
C8_NonCoordinatorFrame ==
    [][ \A r \in Ranks :
          (r # 0 /\ pc[r] = "gather" /\ pc'[r] # "gather")
          => \A n \in EpochMetricNames : metrics'[r][n] = metrics[r][n] ]_vars

\* a non-coordinator has logged and left a validation epoch end in which the
\* coordinator updated its objects, and its own objects hold nothing
C8_Witness ==
    /\ phase = "validate"
    /\ \E r \in Ranks :
          /\ r # 0
          /\ pc[r] = "idle"
          /\ log_calls[r] = ValLogNames
          /\ \A n \in EpochMetricNames : metrics[r][n] = << >>
    /\ pc[0] = "idle"
    /\ metrics[0]["val_m1_recall_at_1"] # << >>

\* C9: from the start hook of a run to its epoch-end handler, the phase list
\* of a rank holds exactly one record per step run since that start, in step
\* order, and nothing from an earlier run; when the epoch-end handler runs
\* the list holds one record per batch of the rank's shard.
C9_ListIsStepsSinceStart ==
    \A r \in Ranks :
        /\ pc[r] \in {"steps", "gather"} => PhaseOutputs(r) = RecordsOfSteps(r)
        /\ pc[r] = "gather" => Len(PhaseOutputs(r)) = ShardLen(r, data_size)

\* a second validation run reaches its epoch end with a list shorter than
\* the one the previous validation run left behind
C9_Witness ==
    /\ phase = "validate"
    /\ runs = 2
    /\ pc[0] = "gather"
    /\ Len(valid_step_outputs[0]) = 1
    /\ Len(metrics[0]["val_loss"]) = 3

\* C10 as stated: once a rank has returned from an epoch-end handler, the
\* phase list of that run is empty.
C10_ListEmptyAfterEpochEnd ==
    \A r \in Ranks : (phase # "none" /\ pc[r] = "idle") => PhaseOutputs(r) = << >>

\* C10 amended: the epoch-end handler leaves both lists as they are, so a
\* rank still holds the run's records after the handler has returned; the
\* records are dropped by the start hook of the next run of that phase.
C10_ListKeptUntilNextStart ==
    [][ \A r \in Ranks :
          /\ (pc[r] = "gather" /\ pc'[r] # "gather")
             => /\ valid_step_outputs'[r] = valid_step_outputs[r]
                /\ test_step_outputs'[r] = test_step_outputs[r]
          /\ (pc[r] = "start" /\ pc'[r] = "steps")
             => IF phase = "validate"
                THEN valid_step_outputs'[r] = << >>
                ELSE test_step_outputs'[r] = << >> ]_vars

\* a rank has logged and returned from a test epoch end and still holds the
\* records of the run
C10_Witness ==
    /\ phase = "test"
    /\ \E r \in Ranks :
          /\ pc[r] = "idle"
          /\ log_calls[r] = TestLogNames
          /\ test_step_outputs[r] # << >>
          /\ test_step_outputs[r] = RecordsOfSteps(r)

\* C15: a non-coordinator's gather call hands its list to the collective
\* exactly once and returns None, whatever the list holds; the
\* coordinator's call, and only it, returns a sequence.
C15_OnlyCoordinatorGetsResult ==
    \A r \in Ranks :
        LeftHandler(r) =>
            /\ gather_calls[r] = 1
            /\ list_gather_obj[r] = Some(PhaseOutputs(r))
            /\ (r # 0) => gather_ret[r] = None
            /\ (r = 0) => gather_ret[r] # None

\* a non-coordinator has sent a non-empty list and got None back, while the
\* coordinator got the flattened sequence
C15_Witness ==
    /\ \E r \in Ranks :
          /\ r # 0
          /\ LeftHandler(r)
          /\ PhaseOutputs(r) # << >>
          /\ list_gather_obj[r] = Some(PhaseOutputs(r))
          /\ gather_ret[r] = None
    /\ LeftHandler(0)
    /\ gather_ret[0] # None
    /\ Len(gather_ret[0][1]) >= 2

\* rank r runs one step of the current run in this transition
StepOn(r) == Len(fed'[r]) = Len(fed[r]) + 1

\* C17: a test step appends exactly one record to the test list and leaves
\* the validation list and every metric object (train_loss, val_loss, the
\* recalls, the median, the counts) as they were; a validation step appends
\* exactly one record to the validation list, updates val_loss exactly once
\* and leaves the test list and train_loss as they were; a training step
\* changes neither list.
C17_StepFrames ==
    [][ \A r \in Ranks :
          StepOn(r) =>
            /\ phase = "test" =>
                 /\ test_step_outputs'[r] =
                        Append(test_step_outputs[r], StepOutput(Last(fed'[r])))
                 /\ valid_step_outputs'[r] = valid_step_outputs[r]
                 /\ metrics'[r] = metrics[r]
            /\ phase = "validate" =>
                 /\ valid_step_outputs'[r] =
                        Append(valid_step_outputs[r], StepOutput(Last(fed'[r])))
                 /\ Len(metrics'[r]["val_loss"]) = Len(metrics[r]["val_loss"]) + 1
                 /\ test_step_outputs'[r] = test_step_outputs[r]
                 /\ metrics'[r]["train_loss"] = metrics[r]["train_loss"]
            /\ phase = "train" =>
                 /\ valid_step_outputs'[r] = valid_step_outputs[r]
                 /\ test_step_outputs'[r] = test_step_outputs[r] ]_vars

\* a test step has run on a rank that holds validation records and a
\* val_loss from an earlier validation run
C17_Witness ==
    /\ phase = "test"
    /\ pc[0] = "steps"
    /\ Len(test_step_outputs[0]) = 1
    /\ Len(fed[0]) = 1
    /\ Len(valid_step_outputs[0]) = 2
    /\ Len(metrics[0]["val_loss"]) = 2

\* C18: from on_train_start to the end of the training run, the six
\* validation recall objects of a rank hold no value, whatever validation
\* steps and validation epoch ends came before.
C18_TrainStartResetsValRecalls ==
    \A r \in Ranks :
        (phase = "train" /\ pc[r] \in {"steps", "idle"})
        => \A n \in Range(ValMetricNames) : metrics[r][n] = << >>

\* the coordinator has started training after a validation run whose epoch
\* end updated its recall objects
C18_Witness ==
    /\ phase = "train"
    /\ pc[0] = "steps"
    /\ valid_step_outputs[0] # << >>
    /\ metrics[0]["val_loss"] # << >>
    /\ \A n \in Range(ValMetricNames) : metrics[0][n] = << >>

\* a name carries the backbone marker: "clip" directly followed by "."
BackboneName(n) == \E i \in 1 .. (Len(n) - 1) : n[i] = "clip" /\ n[i + 1] = "."

\* a name carries a no-decay marker: "bias", or "LayerNorm" "." "weight"
NoDecayName(n) ==
    \/ \E i \in DOMAIN n : n[i] = "bias"
    \/ \E i \in 1 .. (Len(n) - 2) :
          n[i] = "LayerNorm" /\ n[i + 1] = "." /\ n[i + 2] = "weight"

\* the place of a parameter's group in the list of groups
GroupIndex(n) ==
    IF ~ NoDecayName(n) THEN (IF BackboneName(n) THEN 1 ELSE 2)
    ELSE (IF BackboneName(n) THEN 3 ELSE 4)

\* the position of parameter q in the model's parameter list
PositionOf(q) == CHOOSE i \in DOMAIN model.names : model.names[i] = q

\* C11: configure_optimizers builds four groups; each parameter of the
\* model is in the group chosen by the two predicates (decay+backbone,
\* decay+non-backbone, no-decay+backbone, no-decay+non-backbone) and in no
\* other, once; the groups hold nothing else; inside a group the
\* parameters keep the order of the parameter list.
C11_GroupsPartitionParameters ==
    optimizer # None =>
        LET g == optimizer[1].param_groups
        IN  /\ Len(g) = 4
            /\ \A i \in DOMAIN model.names : \A k \in 1 .. 4 :
                  (\E j \in DOMAIN g[k].params : g[k].params[j] = model.names[i])
                      <=> (k = GroupIndex(model.names[i]))
            /\ \A k \in 1 .. 4 : \A j1, j2 \in DOMAIN g[k].params :
                  /\ g[k].params[j1] \in Range(model.names)
                  /\ j1 < j2 => PositionOf(g[k].params[j1]) < PositionOf(g[k].params[j2])

\* four parameters were grouped, two of them into the same group and the
\* others into two more groups
C11_Witness ==
    /\ optimizer # None
    /\ Len(model.names) = 4
    /\ \E k \in 1 .. 4 : Len(optimizer[1].param_groups[k].params) = 2
    /\ Cardinality({k \in 1 .. 4 : optimizer[1].param_groups[k].params # << >>}) = 3

\* C12: a parameter with a no-decay marker is in a group with weight decay
\* 0.0, any other in a group with weight decay 0.2; a parameter with the
\* backbone marker is in a group whose lr is lr * coef_lr, any other in a
\* group without an lr entry.  For the backbone weight, backbone bias,
\* fusion weight and fusion bias each group holds one parameter and the
\* four parameters get weight decay 0.2, 0.0, 0.2, 0.0.
C12_GroupHyperparameters ==
    optimizer # None =>
        LET g == optimizer[1].param_groups
        IN  /\ \A k \in DOMAIN g : \A j \in DOMAIN g[k].params :
                  LET q == g[k].params[j]
                  IN  /\ IF NoDecayName(q)
                         THEN RatEq(g[k].weight_decay, Rat(0, 1))
                         ELSE RatEq(g[k].weight_decay, Rat(1, 5))
                      /\ IF BackboneName(q)
                         THEN /\ g[k].lr # None
                              /\ g[k].lr[1][1] * (hparams.lr[2] * hparams.coef_lr[2])
                                   = (hparams.lr[1] * hparams.coef_lr[1]) * g[k].lr[1][2]
                         ELSE g[k].lr = None
            /\ model.names = ExampleNames =>
                  /\ g[1].params = << ExampleNames[1] >>
                  /\ g[3].params = << ExampleNames[2] >>
                  /\ g[2].params = << ExampleNames[3] >>
                  /\ g[4].params = << ExampleNames[4] >>

\* the four-parameter example was grouped with a coefficient other than 1
C12_Witness ==
    /\ optimizer # None
    /\ model.names = ExampleNames
    /\ hparams.coef_lr = Rat(1, 1000)
    /\ optimizer[1].param_groups[1].lr # None
    /\ optimizer[1].param_groups[2].lr = None

CeilDiv(a, b) == (a + b - 1) \div b

\* C13: t_total is an integer and equals
\* ceil(train_data_size / gradient_accumulation_steps) * epochs.
C13_TotalStepsIsCeilTimesEpochs ==
    optimizer # None =>
        /\ RatIsInteger(optimizer[1].t_total)
        /\ RatEq(optimizer[1].t_total,
                 Rat(CeilDiv(hparams.train_data_size,
                             hparams.gradient_accumulation_steps)
                         * hparams.epochs, 1))

\* the pool-flagged and the query-flagged records of the list under a call
PoolIndexes == { i \in DOMAIN v2t_outputs : v2t_outputs[i].is_pool }
QueryIndexes == { i \in DOMAIN v2t_outputs : v2t_outputs[i].is_query }

\* C14 as stated: the matrix passed to the scorer has one row per
\* pool-flagged item and one column per query-flagged item, so that the
\* first key argument lines up with the rows and the second with the columns.
C14_RowsArePoolItems ==
    (v2t_pc = "returned" /\ scorer_call # None) =>
        LET a == scorer_call[1]
        IN  /\ a.logits.rows = Cardinality(PoolIndexes)
            /\ a.logits.cols = Cardinality(QueryIndexes)
            /\ Len(a.first_keys) = a.logits.rows
            /\ Len(a.second_keys) = a.logits.cols

\* C14 amended: the matrix passed to the scorer has one row per
\* query-flagged item and one column per pool-flagged item; the first key
\* argument holds the keys of the pool-flagged items and lines up with the
\* columns, the second holds the keys of the query-flagged items and lines
\* up with the rows: entry (i, j) scores the i-th query item against the
\* j-th pool item.
C14_RowsAreQueryItems ==
    (v2t_pc = "returned" /\ scorer_call # None) =>
        LET a == scorer_call[1]
        IN  /\ a.logits.rows = Cardinality(QueryIndexes)
            /\ a.logits.cols = Cardinality(PoolIndexes)
            /\ Len(a.first_keys) = a.logits.cols
            /\ Len(a.second_keys) = a.logits.rows
            /\ Range(a.first_keys) = { v2t_outputs[i].key : i \in PoolIndexes }
            /\ Range(a.second_keys) = { v2t_outputs[i].key : i \in QueryIndexes }
            /\ \A i \in 1 .. a.logits.rows : \A j \in 1 .. a.logits.cols :
                  a.logits.at[<< i, j >>] = << "sim", a.first_keys[j], a.second_keys[i] >>

\* a list with two pool items and one query item was scored
C14_Witness ==
    /\ v2t_pc = "returned"
    /\ scorer_call # None
    /\ Cardinality(PoolIndexes) = 2
    /\ Cardinality(QueryIndexes) = 1
    /\ scorer_call[1].logits.rows = 1
    /\ scorer_call[1].logits.cols = 2

\* C16: when configure_optimizers is entered with a wrapped model, the
\* parameters are enumerated from the model inside the wrapper, under its
\* own names; the groups are those of the bare model; self.model is the
\* model inside the wrapper afterwards.
C16_WrapperRemovedFirst ==
    (optimizer # None /\ model_before[1].wrapped) =>
        LET bare == [ wrapped |-> FALSE, names |-> model_before[1].names ]
        IN  /\ model = bare
            /\ Len(param_optimizer) = Len(bare.names)
            /\ \A i \in DOMAIN param_optimizer :
                  /\ param_optimizer[i].n = bare.names[i]
                  /\ param_optimizer[i].p = bare.names[i]
            /\ optimizer[1].param_groups =
                  optimizer_grouped_parameters(
                      named_parameters(bare), hparams.lr, hparams.coef_lr)

\* a wrapped model with several parameters was configured
C16_Witness ==
    /\ optimizer # None
    /\ model_before # None
    /\ model_before[1].wrapped
    /\ Len(model_before[1].names) >= 2
    /\ ~ model.wrapped

====
